---- MODULE Spec2Model ----
(***************************************************************************)
(* Model of src/src/main.rs: the boot sequence main() -> wifi(), the       *)
(* control task smart_outlet_handler() and the write callback              *)
(* outlet_write() that the accessory-protocol stack invokes.               *)
(*                                                                         *)
(* Option<T> values are sequences of length at most one: <<>> is None and  *)
(* <<x>> is Some(x).                                                       *)
(***************************************************************************)
EXTENDS Integers, Sequences, FiniteSets, TLC

\* ------------------------------------------------------------- bounds
MaxAps == 2          \* access points in one scan result
MaxChannel == 3      \* channels 1..MaxChannel
MaxProbes == 4       \* probes counted in one ping summary
NumCallers == 2      \* contexts that call outlet_write, once each
MaxFailures == 1     \* protocol-stack calls that report a failure in one run

\* ---------------------------------------------------------- constants
SSID == "ssid"
HAP_SUCCESS_ == 0

None == <<>>
Some(x) == <<x>>

Channels == 1..MaxChannel
Ssids == {SSID, "other"}
AccessPoints == [ssid : Ssids, channel : Channels]
ScanResults == UNION {[1..n -> AccessPoints] : n \in 0..MaxAps}

ClientStatuses ==
    {"Stopped", "Starting", "Started(Disconnected)", "Started(Connecting)",
     "Started(Connected(Waiting))", "Started(Connected(Done))"}
ApStatuses == {"Stopped", "Starting", "Started(Waiting)", "Started(Done)"}
Statuses == [client : ClientStatuses, ap : ApStatuses]
PingSummaries == [transmitted : 0..MaxProbes, received : 0..MaxProbes]

Callers == 1..NumCallers

VARIABLES
    pcMain,        \* position of main() / wifi()
    ap_infos,      \* wifi(): Option of the scan result
    channel,       \* wifi(): Option of the chosen channel
    status,        \* wifi(): Option of the queried status
    ping_summary,  \* wifi(): Option of the ping summary
    wifiResult,    \* Option of what wifi() returned: "Ok" or the error
    driverConfig,  \* wifi(): Option of the configuration passed to the driver
    driverOps,     \* driver operations performed so far, in order
    WIFI,          \* static WIFI: Option of the network handle
    wifiLock,      \* holder of the WIFI mutex
    tasksCreated,  \* number of task::Task::create calls
    mainResult,    \* Option of what main() returned
    pcTask,        \* position of smart_outlet_handler()
    peripheralsTaken,
    switch,        \* smart_outlet_handler(): Option of the local pin handle
    level,         \* physical level of the output pin
    GPIO,          \* static GPIO: Option of the bound pin handle
    gpioLock,      \* the contexts inside the GPIO critical section
    hapCalls,      \* protocol-stack calls made so far, in order
    hapFailed,     \* protocol-stack calls that reported a failure
    writeCb,       \* Option of the write callback installed on the service
    started,       \* the protocol stack's run loop is running
    hpc,           \* per caller: position inside outlet_write
    write_data,    \* per caller: the request array passed (a sequence), or NULL
    count,         \* per caller: the count argument
    b,             \* per caller: Option of the value read from (*write_data).val.b
    ret,           \* per caller: Option of the last returned status
    lastAcquired,  \* Option of the invocation that entered the critical section last
    applied,       \* number of pin writes done by outlet_write
    halted         \* "running", or how the process ended

wifiVars == <<ap_infos, channel, status, ping_summary, wifiResult, driverConfig, driverOps>>
mainVars == <<pcMain, WIFI, wifiLock, tasksCreated, mainResult>>
taskVars == <<pcTask, peripheralsTaken, switch, hapCalls, hapFailed, writeCb, started>>
gpioVars == <<level, GPIO, gpioLock>>
cbVars == <<hpc, write_data, count, b, ret, lastAcquired, applied>>
vars == <<wifiVars, mainVars, taskVars, gpioVars, cbVars, halted>>

Init ==
    /\ pcMain = "link_patches"
    /\ ap_infos = None /\ channel = None /\ status = None /\ ping_summary = None
    /\ wifiResult = None /\ driverConfig = None /\ driverOps = <<>>
    /\ WIFI = None /\ wifiLock = "free" /\ tasksCreated = 0 /\ mainResult = None
    /\ pcTask = "not_created" /\ peripheralsTaken = FALSE /\ switch = None
    /\ level = "unconfigured" /\ GPIO = None /\ gpioLock = {}
    /\ hapCalls = <<>> /\ hapFailed = {} /\ writeCb = None /\ started = FALSE
    /\ hpc = [i \in Callers |-> "idle"]
    /\ write_data = [i \in Callers |-> [null |-> FALSE, reqs |-> <<>>]]
    /\ count = [i \in Callers |-> 0]
    /\ b = [i \in Callers |-> None]
    /\ ret = [i \in Callers |-> None]
    /\ lastAcquired = None /\ applied = 0
    /\ halted = "running"

\* ------------------------------------------------------------ wifi()
\* An error that starts the bootstrap over instead of leaving wifi().
wifi_fail_retry(err) ==
    /\ wifiResult' = Some(err)
    /\ pcMain' = "wifi_scan"

\* An error leaves wifi() at once: `?` and bail! both return Err.
wifi_fail(err) ==
    /\ wifiResult' = Some(err)
    /\ pcMain' = "wifi_returned"

\* main.rs:30-32
main_link_patches ==
    /\ halted = "running" /\ pcMain = "link_patches"
    /\ pcMain' = "wifi_new"
    /\ UNCHANGED <<wifiVars, WIFI, wifiLock, tasksCreated, mainResult,
                   taskVars, gpioVars, cbVars, halted>>

\* main.rs:121-125: four constructors, each followed by `?`
wifi_new ==
    /\ halted = "running" /\ pcMain = "wifi_new"
    /\ \E outcome \in {"ok", "netif", "sysloop", "nvs", "wifi"} :
         IF outcome = "ok"
         THEN pcMain' = "wifi_scan" /\ wifiResult' = wifiResult
         ELSE wifi_fail("DriverInit")
    /\ UNCHANGED <<ap_infos, channel, status, ping_summary, driverConfig, driverOps,
                   WIFI, wifiLock, tasksCreated, mainResult,
                   taskVars, gpioVars, cbVars, halted>>

\* main.rs:129
wifi_scan ==
    /\ halted = "running" /\ pcMain = "wifi_scan"
    /\ driverOps' = Append(driverOps, "scan")
    /\ \/ /\ \E aps \in ScanResults : ap_infos' = Some(aps)
          /\ pcMain' = "wifi_find"
          /\ wifiResult' = wifiResult
       \/ /\ wifi_fail("ScanIncomplete")
          /\ ap_infos' = ap_infos
    /\ UNCHANGED <<channel, status, ping_summary, driverConfig,
                   WIFI, wifiLock, tasksCreated, mainResult,
                   taskVars, gpioVars, cbVars, halted>>

\* The last access point with the target SSID instead of the first.
findLast(aps, i) ==
    LET m == {k \in i..Len(aps) : aps[k].ssid = SSID}
    IN  IF m = {} THEN None ELSE Some(aps[CHOOSE k \in m : \A j \in m : j <= k])

\* main.rs:131: ap_infos.into_iter().find(|a| a.ssid == SSID)
RECURSIVE find(_, _)
find(aps, i) ==
    IF i > Len(aps) THEN None
    ELSE IF aps[i].ssid = SSID THEN Some(aps[i])
    ELSE find(aps, i + 1)

\* main.rs:133-145
SelectChannel(aps) ==
    LET ours == find(aps, 1)
    IN  IF ours # None THEN Some(ours[1].channel) ELSE None

wifi_find ==
    /\ halted = "running" /\ pcMain = "wifi_find"
    /\ channel' = SelectChannel(ap_infos[1])
    /\ pcMain' = "wifi_set_configuration"
    /\ UNCHANGED <<ap_infos, status, ping_summary, wifiResult, driverConfig, driverOps,
                   WIFI, wifiLock, tasksCreated, mainResult,
                   taskVars, gpioVars, cbVars, halted>>

\* main.rs:156: channel.unwrap_or(1)
unwrap_or(opt, default) == IF opt = None THEN default ELSE opt[1]

\* main.rs:147-159: Configuration::Mixed(ClientConfiguration, AccessPointConfiguration)
MixedConfiguration(ch) ==
    [client_ssid |-> SSID, client_channel |-> ch,
     ap_ssid |-> "aptest", ap_channel |-> unwrap_or(ch, 1)]

wifi_set_configuration ==
    /\ halted = "running" /\ pcMain = "wifi_set_configuration"
    /\ driverOps' = Append(driverOps, "set_configuration")
    /\ \/ /\ driverConfig' = Some(MixedConfiguration(channel))
          /\ pcMain' = "wifi_get_status"
          /\ wifiResult' = wifiResult
       \/ /\ wifi_fail("ConfigRejected")
          /\ driverConfig' = driverConfig
    /\ UNCHANGED <<ap_infos, channel, status, ping_summary,
                   WIFI, wifiLock, tasksCreated, mainResult,
                   taskVars, gpioVars, cbVars, halted>>

\* main.rs:163
wifi_get_status ==
    /\ halted = "running" /\ pcMain = "wifi_get_status"
    /\ driverOps' = Append(driverOps, "get_status")
    /\ \E s \in Statuses : status' = Some(s)
    /\ pcMain' = "wifi_match_status"
    /\ UNCHANGED <<ap_infos, channel, ping_summary, wifiResult, driverConfig,
                   WIFI, wifiLock, tasksCreated, mainResult,
                   taskVars, gpioVars, cbVars, halted>>

\* The client role alone, whatever the local-AP role reports.
StatusMatchesClientOnly(s) == s.client = "Started(Connected(Done))"

\* main.rs:165-168: the pattern of the `if let`
StatusMatches(s) ==
    /\ s.client = "Started(Connected(Done))"
    /\ s.ap = "Started(Done)"

\* main.rs:165-170, 182-184
wifi_match_status ==
    /\ halted = "running" /\ pcMain = "wifi_match_status"
    /\ IF StatusMatches(status[1])
       THEN pcMain' = "wifi_ping" /\ wifiResult' = wifiResult
       ELSE wifi_fail("UnexpectedStatus")
    /\ UNCHANGED <<ap_infos, channel, status, ping_summary, driverConfig, driverOps,
                   WIFI, wifiLock, tasksCreated, mainResult,
                   taskVars, gpioVars, cbVars, halted>>

\* main.rs:172-173
wifi_ping ==
    /\ halted = "running" /\ pcMain = "wifi_ping"
    /\ driverOps' = Append(driverOps, "ping")
    /\ \/ /\ \E s \in PingSummaries : ping_summary' = Some(s)
          /\ pcMain' = "wifi_check_ping"
          /\ wifiResult' = wifiResult
       \/ /\ wifi_fail("PingFailed")
          /\ ping_summary' = ping_summary
    /\ UNCHANGED <<ap_infos, channel, status, driverConfig,
                   WIFI, wifiLock, tasksCreated, mainResult,
                   taskVars, gpioVars, cbVars, halted>>

\* `>` in place of `!=`.
PingLostGreater(s) == s.transmitted > s.received

\* main.rs:174: ping_summary.transmitted != ping_summary.received
PingLost(s) == s.transmitted # s.received

\* main.rs:174-181, 186
wifi_check_ping ==
    /\ halted = "running" /\ pcMain = "wifi_check_ping"
    /\ IF PingLost(ping_summary[1])
       THEN wifi_fail("Unreachable")
       ELSE wifiResult' = Some("Ok") /\ pcMain' = "wifi_returned"
    /\ UNCHANGED <<ap_infos, channel, status, ping_summary, driverConfig, driverOps,
                   WIFI, wifiLock, tasksCreated, mainResult,
                   taskVars, gpioVars, cbVars, halted>>

\* ------------------------------------------------------------ main()
\* main.rs:32: the `?` of `wifi()?` returns from main on anything but Ok
PropagatesNothing(result) == FALSE
Propagates(result) == result # Some("Ok")

\* main.rs:32: `let wifi = wifi()?;` -- wifi()'s frame is gone, Err leaves main
main_try_wifi ==
    /\ halted = "running" /\ pcMain = "wifi_returned"
    /\ ap_infos' = None /\ channel' = None /\ status' = None /\ ping_summary' = None
    /\ driverConfig' = None
    /\ IF Propagates(wifiResult)
       THEN pcMain' = "returned" /\ mainResult' = Some("Err")
       ELSE pcMain' = "lock_WIFI" /\ mainResult' = mainResult
    /\ UNCHANGED <<wifiResult, driverOps, WIFI, wifiLock, tasksCreated,
                   taskVars, gpioVars, cbVars, halted>>

\* main.rs:34
main_lock_WIFI ==
    /\ halted = "running" /\ pcMain = "lock_WIFI"
    /\ wifiLock = "free"
    /\ wifiLock' = "main"
    /\ pcMain' = "store_WIFI"
    /\ UNCHANGED <<wifiVars, WIFI, tasksCreated, mainResult,
                   taskVars, gpioVars, cbVars, halted>>

\* An assignment that never reaches the static.
StoreNothing(wifi) == None

\* main.rs:35: *lock = Some(wifi)
StoreWifi(wifi) == Some(wifi)

\* main.rs:35
main_store_WIFI ==
    /\ halted = "running" /\ pcMain = "store_WIFI"
    /\ WIFI' = StoreWifi("wifi")
    /\ pcMain' = "unlock_WIFI"
    /\ UNCHANGED <<wifiVars, wifiLock, tasksCreated, mainResult,
                   taskVars, gpioVars, cbVars, halted>>

\* main.rs:36: the guard goes out of scope
main_unlock_WIFI ==
    /\ halted = "running" /\ pcMain = "unlock_WIFI"
    /\ wifiLock' = "free"
    /\ pcMain' = "create_task"
    /\ UNCHANGED <<wifiVars, WIFI, tasksCreated, mainResult,
                   taskVars, gpioVars, cbVars, halted>>

\* main.rs:38-43
main_create_task ==
    /\ halted = "running" /\ pcMain = "create_task"
    /\ tasksCreated' = tasksCreated + 1
    /\ pcTask' = "take"
    /\ pcMain' = "return_ok"
    /\ UNCHANGED <<wifiVars, WIFI, wifiLock, mainResult,
                   peripheralsTaken, switch, hapCalls, hapFailed, writeCb, started,
                   gpioVars, cbVars, halted>>

\* main.rs:45
main_return_ok ==
    /\ halted = "running" /\ pcMain = "return_ok"
    /\ mainResult' = Some("Ok")
    /\ pcMain' = "returned"
    /\ UNCHANGED <<wifiVars, WIFI, wifiLock, tasksCreated,
                   taskVars, gpioVars, cbVars, halted>>

Boot ==
    \/ main_link_patches \/ wifi_new \/ wifi_scan \/ wifi_find
    \/ wifi_set_configuration \/ wifi_get_status \/ wifi_match_status
    \/ wifi_ping \/ wifi_check_ping
    \/ main_try_wifi \/ main_lock_WIFI \/ main_store_WIFI \/ main_unlock_WIFI
    \/ main_create_task \/ main_return_ok

\* ------------------------------------------- smart_outlet_handler()
\* The control task's context; the callers of outlet_write are 1..NumCallers.
Task == 0

\* A panic of the control task: unwrap() on None / Err.  The task was entered from
\* the scheduler's C frame, so the process ends.
task_panic ==
    /\ pcTask' = "panicked"
    /\ halted' = "abort"

\* main.rs:51: Peripherals::take().unwrap() -- None once taken
task_take ==
    /\ halted = "running" /\ pcTask = "take"
    /\ IF peripheralsTaken
       THEN task_panic /\ peripheralsTaken' = peripheralsTaken
       ELSE peripheralsTaken' = TRUE /\ pcTask' = "into_output" /\ halted' = halted
    /\ UNCHANGED <<wifiVars, mainVars, switch, hapCalls, hapFailed, writeCb, started,
                   gpioVars, cbVars>>

\* main.rs:52-53: pins.gpio5.into_output().unwrap(); the level the pin drives
\* right after being made an output is the driver's, either one
task_into_output ==
    /\ halted = "running" /\ pcTask = "into_output"
    /\ \/ /\ switch' = Some("gpio5")
          /\ \E l \in {"low", "high"} : level' = l
          /\ pcTask' = "set_low" /\ halted' = halted
       \/ /\ task_panic
          /\ UNCHANGED <<switch, level>>
    /\ UNCHANGED <<wifiVars, mainVars, peripheralsTaken, hapCalls, hapFailed, writeCb,
                   started, GPIO, gpioLock, cbVars>>

\* The call left out: the pin keeps the level it had.
set_low_skipped(l) == l

\* main.rs:54: switch.set_low()
set_low(l) == "low"

\* main.rs:54
task_set_low ==
    /\ halted = "running" /\ pcTask = "set_low"
    /\ level' = set_low(level)
    /\ pcTask' = "bind_lock"
    /\ UNCHANGED <<wifiVars, mainVars, peripheralsTaken, switch, hapCalls, hapFailed,
                   writeCb, started, GPIO, gpioLock, cbVars, halted>>

\* A lock that lets everybody in.
CanEnterAlways(holders) == TRUE

\* CriticalSectionSpinLockMutex::lock: entered only while nobody is inside
CanEnter(holders) == holders = {}

\* A critical section that is never left.
ReleaseNothing(holders, who) == holders

\* CriticalSectionSpinLockMutex::lock: the closure has returned, `who` is out
Release(holders, who) == holders \ {who}

\* main.rs:57: (&GPIO).lock(...) enters the critical section
task_bind_lock ==
    /\ halted = "running" /\ pcTask = "bind_lock"
    /\ CanEnter(gpioLock)
    /\ gpioLock' = gpioLock \cup {Task}
    /\ pcTask' = "bind_store"
    /\ UNCHANGED <<wifiVars, mainVars, peripheralsTaken, switch, hapCalls, hapFailed,
                   writeCb, started, level, GPIO, cbVars, halted>>

\* A closure that drops the handle instead of storing it.
BindNothing(handle) == None

\* main.rs:57: |val| *val = Some(switch)
Bind(handle) == Some(handle)

task_bind_store ==
    /\ halted = "running" /\ pcTask = "bind_store"
    /\ GPIO' = Bind(switch[1])
    /\ switch' = None   \* moved into the static
    /\ pcTask' = "bind_unlock"
    /\ UNCHANGED <<wifiVars, mainVars, peripheralsTaken, hapCalls, hapFailed,
                   writeCb, started, level, gpioLock, cbVars, halted>>

\* main.rs:57: the closure returns, the critical section is left
task_bind_unlock ==
    /\ halted = "running" /\ pcTask = "bind_unlock"
    /\ gpioLock' = Release(gpioLock, Task)
    /\ pcTask' = "init"
    /\ UNCHANGED <<wifiVars, mainVars, peripheralsTaken, switch, hapCalls, hapFailed,
                   writeCb, started, level, GPIO, cbVars, halted>>

\* The write callback installed only after the accessory is registered.
HapStepsCallbackLate ==
    <<"init", "accessory_create", "service_create", "add_name",
      "get_service_by_uuid", "add_service_to_accessory", "add_accessory",
      "set_write_cb", "secret", "start">>

\* main.rs:70-90: the protocol-stack calls, in program order
HapSteps ==
    <<"init", "accessory_create", "service_create", "add_name",
      "get_service_by_uuid", "set_write_cb", "add_service_to_accessory",
      "add_accessory", "secret", "start">>

\* start() returning into a loop body that registers again.
AfterCallAgain(k, ok) == IF k < Len(HapSteps) THEN HapSteps[k + 1] ELSE "init"

\* main.rs:70-92: where the control task goes after a protocol-stack call.  No
\* call's result is looked at (no `?`, no unwrap, no match), so the next
\* statement runs whatever the call reported.
AfterCall(k, ok) == IF k < Len(HapSteps) THEN HapSteps[k + 1] ELSE "loop"

\* One protocol-stack call: it is made, it reports ok or a failure, and a call
\* that failed has not taken effect inside the stack.
hap_call(k, ok) ==
    /\ halted = "running" /\ pcTask = HapSteps[k]
    /\ ok \/ Cardinality(hapFailed) < MaxFailures
    /\ hapCalls' = Append(hapCalls, HapSteps[k])
    /\ hapFailed' = IF ok THEN hapFailed ELSE hapFailed \cup {HapSteps[k]}
    /\ writeCb' = IF ok /\ HapSteps[k] = "set_write_cb" THEN Some("outlet_write") ELSE writeCb
    /\ started' = IF ok /\ HapSteps[k] = "start" THEN TRUE ELSE started
    /\ pcTask' = AfterCall(k, ok)
    /\ UNCHANGED <<wifiVars, mainVars, peripheralsTaken, switch, gpioVars, cbVars, halted>>

hap_init == \E ok \in BOOLEAN : hap_call(1, ok)                       \* main.rs:70
accessory_create == \E ok \in BOOLEAN : hap_call(2, ok)               \* main.rs:72
service_create == \E ok \in BOOLEAN : hap_call(3, ok)                 \* main.rs:73
service_add_name == \E ok \in BOOLEAN : hap_call(4, ok)               \* main.rs:75
service_get_service_by_uuid == \E ok \in BOOLEAN : hap_call(5, ok)    \* main.rs:77
service_set_write_cb == \E ok \in BOOLEAN : hap_call(6, ok)           \* main.rs:79
hap_add_service_to_accessory == \E ok \in BOOLEAN : hap_call(7, ok)   \* main.rs:81
hap_add_accessory == \E ok \in BOOLEAN : hap_call(8, ok)              \* main.rs:83
hap_secret == \E ok \in BOOLEAN : hap_call(9, ok)                     \* main.rs:85-88
hap_start == \E ok \in BOOLEAN : hap_call(10, ok)                     \* main.rs:90

ControlTask ==
    \/ task_take \/ task_into_output \/ task_set_low
    \/ task_bind_lock \/ task_bind_store \/ task_bind_unlock
    \/ hap_init \/ accessory_create \/ service_create \/ service_add_name
    \/ service_get_service_by_uuid \/ service_set_write_cb
    \/ hap_add_service_to_accessory \/ hap_add_accessory \/ hap_secret \/ hap_start

\* ------------------------------------------------------ outlet_write()
\* The requests a caller passes: the array behind write_data (null: a null
\* pointer) and the count argument.
BatchSizes == {1, 2}
Batches == UNION {[1..n -> BOOLEAN] : n \in BatchSizes}
WellFormed == {[null |-> FALSE, reqs |-> r, count |-> Len(r)] : r \in Batches}
Malformed ==
    {[null |-> FALSE, reqs |-> <<>>, count |-> 0],
     [null |-> TRUE, reqs |-> <<>>, count |-> 0]}

\* What the protocol stack needs to route a remote write to the callback: its
\* run loop, the callback, and the calls that build and publish the service.
RoutingCalls ==
    {"init", "accessory_create", "service_create", "set_write_cb",
     "add_service_to_accessory", "add_accessory", "secret", "start"}
Deliverable ==
    /\ started
    /\ writeCb = Some("outlet_write")
    /\ hapFailed \cap RoutingCalls = {}

\* main.rs:95-100: outlet_write is entered with its arguments
outlet_write_enter(i, args) ==
    /\ halted = "running" /\ hpc[i] = "idle"
    /\ write_data' = [write_data EXCEPT ![i] = [null |-> args.null, reqs |-> args.reqs]]
    /\ count' = [count EXCEPT ![i] = args.count]
    /\ b' = [b EXCEPT ![i] = None]
    /\ ret' = [ret EXCEPT ![i] = None]
    /\ hpc' = [hpc EXCEPT ![i] = "read"]
    /\ UNCHANGED <<wifiVars, mainVars, taskVars, gpioVars, lastAcquired, applied, halted>>

\* The protocol stack delivers a remote write from its own context.
stack_write(i) ==
    /\ Deliverable
    /\ \E args \in WellFormed : outlet_write_enter(i, args)

\* Any caller of the exported function, with any arguments, at any time.
direct_call(i) ==
    \E args \in WellFormed \cup Malformed : outlet_write_enter(i, args)

\* main.rs:105: (*write_data).val.b -- the first request, whatever count is.  A
\* null pointer or an empty array makes the read undefined: the process faults,
\* or the read yields whatever is there.
ReadOutcomes(wd) ==
    IF wd.null THEN {"fault", "true", "false"}
    ELSE IF Len(wd.reqs) = 0 THEN {"true", "false"}
    ELSE {IF wd.reqs[1] THEN "true" ELSE "false"}

outlet_write_read(i) ==
    /\ halted = "running" /\ hpc[i] = "read"
    /\ \E o \in ReadOutcomes(write_data[i]) :
         IF o = "fault"
         THEN /\ halted' = "fault"
              /\ hpc' = [hpc EXCEPT ![i] = "faulted"]
              /\ b' = b
         ELSE /\ b' = [b EXCEPT ![i] = Some(o = "true")]
              /\ hpc' = [hpc EXCEPT ![i] = "lock"]
              /\ halted' = halted
    /\ UNCHANGED <<wifiVars, mainVars, taskVars, gpioVars, write_data, count, ret,
                   lastAcquired, applied>>

\* main.rs:106, 111: gpio.lock(...) enters the critical section
outlet_write_lock(i) ==
    /\ halted = "running" /\ hpc[i] = "lock"
    /\ CanEnter(gpioLock)
    /\ gpioLock' = gpioLock \cup {i}
    /\ lastAcquired' = Some([caller |-> i, value |-> b[i][1]])
    /\ hpc' = [hpc EXCEPT ![i] = "unwrap"]
    /\ UNCHANGED <<wifiVars, mainVars, taskVars, level, GPIO, write_data, count, b, ret,
                   applied, halted>>

\* main.rs:107, 112: gpio.as_mut().unwrap() panics on None.  The panic leaves an
\* extern "C" function: the process aborts, or the unwinding runs into the
\* caller's frames.  Either way the call does not return.
UnwrapOutcomes(gpio) == IF gpio = None THEN {"abort", "unwind"} ELSE {"running"}

\* Option::take in place of as_mut: the handle is moved out of the static.
take(gpio) == None

\* main.rs:107, 112: as_mut() borrows the handle, the static keeps it
as_mut(gpio) == gpio

outlet_write_unwrap(i) ==
    /\ halted = "running" /\ hpc[i] = "unwrap"
    /\ \E o \in UnwrapOutcomes(GPIO) :
         /\ halted' = o
         /\ hpc' = [hpc EXCEPT ![i] = IF o = "running" THEN "set" ELSE "panicked"]
    /\ GPIO' = as_mut(GPIO)
    /\ UNCHANGED <<wifiVars, mainVars, taskVars, level, gpioLock, write_data, count, b,
                   ret, lastAcquired, applied>>

\* set_low() in both branches.
LevelForLow(value) == "low"

\* main.rs:105-114: set_high() for true, set_low() for false
LevelFor(value) == IF value = TRUE THEN "high" ELSE "low"

\* main.rs:108, 113
outlet_write_set(i) ==
    /\ halted = "running" /\ hpc[i] = "set"
    /\ level' = LevelFor(b[i][1])
    /\ applied' = applied + 1
    /\ hpc' = [hpc EXCEPT ![i] = "unlock"]
    /\ UNCHANGED <<wifiVars, mainVars, taskVars, GPIO, gpioLock, write_data, count, b,
                   ret, lastAcquired, halted>>

\* main.rs:109, 114: the closure returns, the critical section is left
outlet_write_unlock(i) ==
    /\ halted = "running" /\ hpc[i] = "unlock"
    /\ gpioLock' = Release(gpioLock, i)
    /\ hpc' = [hpc EXCEPT ![i] = "return"]
    /\ UNCHANGED <<wifiVars, mainVars, taskVars, level, GPIO, write_data, count, b, ret,
                   lastAcquired, applied, halted>>

\* main.rs:117: the status returned, whatever was passed in
ReturnStatus(args) == HAP_SUCCESS_

outlet_write_return(i) ==
    /\ halted = "running" /\ hpc[i] = "return"
    /\ ret' = [ret EXCEPT ![i] = Some(ReturnStatus(write_data[i]))]
    /\ hpc' = [hpc EXCEPT ![i] = "returned"]
    /\ UNCHANGED <<wifiVars, mainVars, taskVars, gpioVars, write_data, count, b,
                   lastAcquired, applied, halted>>

\* The caller takes the status; the request is over.
caller_done(i) ==
    /\ halted = "running" /\ hpc[i] = "returned"
    /\ hpc' = [hpc EXCEPT ![i] = "done"]
    /\ write_data' = [write_data EXCEPT ![i] = [null |-> FALSE, reqs |-> <<>>]]
    /\ count' = [count EXCEPT ![i] = 0]
    /\ b' = [b EXCEPT ![i] = None]
    /\ ret' = [ret EXCEPT ![i] = None]
    /\ UNCHANGED <<wifiVars, mainVars, taskVars, gpioVars, lastAcquired, applied, halted>>

Handler(i) ==
    \/ outlet_write_read(i) \/ outlet_write_lock(i) \/ outlet_write_unwrap(i)
    \/ outlet_write_set(i) \/ outlet_write_unlock(i) \/ outlet_write_return(i)
    \/ caller_done(i)

\* ------------------------------------------------------ specifications
\* The program: boot, the control task, and writes delivered by the stack.
Next ==
    \/ Boot
    \/ ControlTask
    \/ \E i \in Callers : stack_write(i) \/ Handler(i)

Spec == Init /\ [][Next]_vars

\* The actuator guard on its own: the control task is about to bind the pin
\* (main.rs:57) and outlet_write is called directly, before or after the bind,
\* with any arguments.
InitGuard ==
    /\ pcMain = "returned"
    /\ ap_infos = None /\ channel = None /\ status = None /\ ping_summary = None
    /\ wifiResult = Some("Ok") /\ driverConfig = None
    /\ driverOps = <<"scan", "set_configuration", "get_status", "ping">>
    /\ WIFI = Some("wifi") /\ wifiLock = "free" /\ tasksCreated = 1
    /\ mainResult = Some("Ok")
    /\ pcTask = "bind_lock" /\ peripheralsTaken = TRUE /\ switch = Some("gpio5")
    /\ level = "low" /\ GPIO = None /\ gpioLock = {}
    /\ hapCalls = <<>> /\ hapFailed = {} /\ writeCb = None /\ started = FALSE
    /\ hpc = [i \in Callers |-> "idle"]
    /\ write_data = [i \in Callers |-> [null |-> FALSE, reqs |-> <<>>]]
    /\ count = [i \in Callers |-> 0]
    /\ b = [i \in Callers |-> None]
    /\ ret = [i \in Callers |-> None]
    /\ lastAcquired = None /\ applied = 0
    /\ halted = "running"

NextGuard ==
    \/ task_bind_lock \/ task_bind_store \/ task_bind_unlock
    \/ \E i \in Callers : direct_call(i) \/ Handler(i)

SpecGuard == InitGuard /\ [][NextGuard]_vars

\* The running system: the control task has registered everything without a
\* failure and sits in its loop (main.rs:92), main has returned, and the stack
\* delivers writes.  The scheduler runs every context that can take a step, so
\* each invocation's steps are weakly fair.
InitLive ==
    /\ pcMain = "returned"
    /\ ap_infos = None /\ channel = None /\ status = None /\ ping_summary = None
    /\ wifiResult = Some("Ok") /\ driverConfig = None
    /\ driverOps = <<"scan", "set_configuration", "get_status", "ping">>
    /\ WIFI = Some("wifi") /\ wifiLock = "free" /\ tasksCreated = 1
    /\ mainResult = Some("Ok")
    /\ pcTask = "loop" /\ peripheralsTaken = TRUE /\ switch = None
    /\ level = "low" /\ GPIO = Some("gpio5") /\ gpioLock = {}
    /\ hapCalls = HapSteps /\ hapFailed = {}
    /\ writeCb = Some("outlet_write") /\ started = TRUE
    /\ hpc = [i \in Callers |-> "idle"]
    /\ write_data = [i \in Callers |-> [null |-> FALSE, reqs |-> <<>>]]
    /\ count = [i \in Callers |-> 0]
    /\ b = [i \in Callers |-> None]
    /\ ret = [i \in Callers |-> None]
    /\ lastAcquired = None /\ applied = 0
    /\ halted = "running"

NextLive == \E i \in Callers : stack_write(i) \/ Handler(i)

SpecLive ==
    /\ InitLive
    /\ [][NextLive]_vars
    /\ \A i \in Callers : WF_vars(Handler(i))

\* ============================================================== claims
InCall(i) == hpc[i] \notin {"idle", "done"}

\* C1 (as claimed): an invocation of outlet_write with a command, true or
\* false, that finds GPIO unbound does not panic or abort: it returns normally,
\* and it does not change the pin.
C1_UnboundNoOp ==
    \A i \in Callers :
        (InCall(i) /\ count[i] >= 1 /\ GPIO = None) =>
            (hpc[i] # "panicked" /\ halted \notin {"abort", "unwind"})

\* C2: among concurrent invocations on a bound actuator, whenever nobody is
\* inside the critical section the pin shows the initial low level if no
\* invocation entered it yet, and otherwise the value of the invocation that
\* entered it last; so it does once all of them have completed.
C2_Linearizable ==
    (GPIO # None /\ gpioLock = {}) =>
        level = IF lastAcquired = None THEN "low"
                ELSE IF lastAcquired[1].value THEN "high" ELSE "low"

C2_Witness ==
    /\ gpioLock = {}
    /\ \A i \in Callers : hpc[i] \in {"returned", "done"}
    /\ \E i, j \in Callers :
         /\ hpc[i] = "returned" /\ hpc[j] = "returned"
         /\ b[i] = Some(TRUE) /\ b[j] = Some(FALSE)
         /\ lastAcquired[1].caller = j

\* C3: an invocation delivered by the stack returns HAP_SUCCESS_; and when it
\* carried one command and nobody entered the critical section after it, the
\* pin is high for true and low for false once it has returned.
C3_StatusAndEffect ==
    \A i \in Callers :
        hpc[i] = "returned" =>
            /\ ret[i] = Some(HAP_SUCCESS_)
            /\ (count[i] = 1 /\ lastAcquired[1].caller = i /\ gpioLock = {}) =>
                   level = IF write_data[i].reqs[1] THEN "high" ELSE "low"

C3_Witness ==
    \E i \in Callers :
        /\ hpc[i] = "returned" /\ count[i] = 1 /\ write_data[i].reqs = <<TRUE>>
        /\ lastAcquired[1].caller = i /\ gpioLock = {}
        /\ level = "high" /\ ret[i] = Some(HAP_SUCCESS_)

\* C4: once the ping has returned a summary, wifi() returns Ok exactly if
\* transmitted = received, and Unreachable otherwise; and wifi() returns Ok
\* only with such a summary.
C4_ReachabilityGate ==
    /\ (ping_summary # None /\ pcMain = "wifi_returned") =>
           /\ (wifiResult = Some("Ok")) <=>
                  (ping_summary[1].transmitted = ping_summary[1].received)
           /\ (ping_summary[1].transmitted # ping_summary[1].received) =>
                  wifiResult = Some("Unreachable")
    /\ (pcMain = "wifi_returned" /\ wifiResult = Some("Ok")) => ping_summary # None

C4_Witness ==
    /\ pcMain = "wifi_returned"
    /\ ping_summary = Some([transmitted |-> 4, received |-> 3])
    /\ wifiResult = Some("Unreachable")

\* C5: a ping is sent only if the queried status is exactly client
\* Started(Connected(Done)) with local AP Started(Done); on any other status
\* wifi() returns UnexpectedStatus, never Ok, and no ping is sent.
C5_StatusGate ==
    status # None =>
        LET exact == /\ status[1].client = "Started(Connected(Done))"
                     /\ status[1].ap = "Started(Done)"
            pinged == \E k \in 1..Len(driverOps) : driverOps[k] = "ping"
        IN  /\ pinged => exact
            /\ (~exact /\ pcMain # "wifi_match_status") =>
                   /\ pcMain = "wifi_returned"
                   /\ wifiResult = Some("UnexpectedStatus")
                   /\ ~pinged

C5_Witness ==
    /\ status = Some([client |-> "Started(Connected(Done))", ap |-> "Started(Waiting)"])
    /\ wifiResult = Some("UnexpectedStatus")
    /\ driverOps = <<"scan", "set_configuration", "get_status">>

\* C6: once wifi() has failed, main returns the error as its next step: no
\* task is created, no protocol-stack call is made, the write callback is not
\* installed, and nothing is stored in WIFI.
C6_FailFastBoot ==
    (wifiResult # None /\ wifiResult # Some("Ok")) =>
        /\ pcMain \in {"wifi_returned", "returned"}
        /\ pcMain = "returned" => mainResult = Some("Err")
        /\ tasksCreated = 0 /\ pcTask = "not_created"
        /\ hapCalls = <<>> /\ writeCb = None /\ ~started
        /\ \A i \in Callers : hpc[i] = "idle"

C6_Witness ==
    /\ pcMain = "returned" /\ mainResult = Some("Err")
    /\ wifiResult = Some("Unreachable")
    /\ tasksCreated = 0 /\ hapCalls = <<>>

\* C7 (as claimed): the client channel of the applied configuration is the
\* channel of every access point of the scan result that has the target SSID;
\* with no such access point it is none and the local-AP channel is 1.
C7_ChannelOfAnyMatch ==
    driverConfig # None =>
        LET aps == ap_infos[1]
            matches == {k \in 1..Len(aps) : aps[k].ssid = SSID}
        IN  /\ \A k \in matches :
                   driverConfig[1].client_channel = Some(aps[k].channel)
            /\ matches = {} =>
                   /\ driverConfig[1].client_channel = None
                   /\ driverConfig[1].ap_channel = 1

\* C7 (amended): the client channel of the applied configuration is the channel
\* of the first access point of the scan result, in scan order, that has the
\* target SSID; with no such access point it is none and the local-AP channel
\* is 1.
C7_ChannelOfFirstMatch ==
    driverConfig # None =>
        LET aps == ap_infos[1]
            matches == {k \in 1..Len(aps) : aps[k].ssid = SSID}
        IN  /\ matches # {} =>
                   LET first == CHOOSE k \in matches : \A j \in matches : k <= j
                   IN  driverConfig[1].client_channel = Some(aps[first].channel)
            /\ matches = {} =>
                   /\ driverConfig[1].client_channel = None
                   /\ driverConfig[1].ap_channel = 1

C7_Witness ==
    /\ driverConfig # None
    /\ Len(ap_infos[1]) = 2
    /\ ap_infos[1][1].ssid = SSID /\ ap_infos[1][2].ssid = SSID
    /\ ap_infos[1][1].channel # ap_infos[1][2].channel
    /\ driverConfig[1].client_channel = Some(ap_infos[1][1].channel)

\* C8: once GPIO is bound it keeps the same handle for ever; the write callback
\* is installed only when GPIO is bound; and an invocation of outlet_write
\* starts only when GPIO is bound.
C8_BindOnceBeforeWrites ==
    [][/\ GPIO # None => GPIO' = GPIO
       /\ (writeCb = None /\ writeCb' # None) => GPIO # None
       /\ \A i \in Callers : (hpc[i] = "idle" /\ hpc'[i] # "idle") => GPIO # None]_vars

C8_Witness ==
    /\ GPIO = Some("gpio5") /\ writeCb = Some("outlet_write")
    /\ \E i \in Callers : hpc[i] = "read"

\* C9 (as claimed): after a registration call before start has failed, the
\* control task makes no further protocol-stack call and the run loop is not
\* started.
RegistrationCalls ==
    {"init", "accessory_create", "service_create", "add_name", "set_write_cb",
     "add_service_to_accessory", "add_accessory", "secret"}

C9_RegistrationFailureFatal ==
    \A k \in 1..Len(hapCalls) :
        (hapCalls[k] \in hapFailed \cap RegistrationCalls) =>
            (k = Len(hapCalls) /\ ~started)

\* C10 (as claimed): an invocation with count 0 or without valid write data,
\* on a bound actuator, does not panic, never writes the pin, and returns a
\* status other than HAP_SUCCESS_.
C10_MalformedRejected ==
    \A i \in Callers :
        (InCall(i) /\ (count[i] = 0 \/ write_data[i].null) /\ GPIO # None) =>
            /\ hpc[i] # "panicked"
            /\ hpc[i] \notin {"unlock", "return"}
            /\ hpc[i] = "returned" => ret[i] # Some(HAP_SUCCESS_)

Called(name) == \E k \in 1..Len(hapCalls) : hapCalls[k] = name

\* C11 (as claimed): once the control task has called hap::start, every step
\* that changes the state is a step of a write-handler invocation: nothing but
\* the invocations' own variables, the pin level and the critical section
\* changes.
C11_OnlyHandlersAfterStart ==
    [][Called("start") => UNCHANGED <<wifiVars, mainVars, taskVars, GPIO>>]_vars

\* C11 (amended): once the control task has called hap::start it stays in its
\* loop for ever: it makes no further protocol-stack call and writes neither
\* GPIO nor the pin; the pin changes only in the set step of a write-handler
\* invocation; and the only other step that still changes the state is main's
\* return of Ok, if main has not returned yet.
C11_ControlTaskParked ==
    [][Called("start") =>
         /\ pcTask = "loop"
         /\ UNCHANGED <<wifiVars, taskVars, GPIO, WIFI, wifiLock, tasksCreated>>
         /\ level' # level =>
                \E i \in Callers : hpc[i] = "set" /\ hpc'[i] = "unlock"
         /\ <<pcMain, mainResult>>' # <<pcMain, mainResult>> =>
                /\ pcMain = "return_ok" /\ pcMain' = "returned"
                /\ mainResult' = Some("Ok")
                /\ UNCHANGED <<cbVars, gpioVars, halted>>]_vars

C11_Witness ==
    /\ Called("start") /\ pcTask = "loop" /\ started
    /\ pcMain = "returned"
    /\ \E i \in Callers : hpc[i] = "unlock" /\ level = "high"

\* The contexts between entering and leaving the critical section.
InCriticalSection ==
    {i \in Callers : hpc[i] \in {"unwrap", "set", "unlock"}}
        \cup (IF pcTask \in {"bind_store", "bind_unlock"} THEN {Task} ELSE {})

\* C12: at most one context, the control task in its bind or a write-handler
\* invocation, is between entering and leaving the GPIO critical section, and
\* the lock is held by exactly that context from before it reads the bound
\* handle until after it has applied the level.
C12_MutualExclusion ==
    /\ Cardinality(InCriticalSection) <= 1
    /\ gpioLock = InCriticalSection

C12_Witness ==
    \E i, j \in Callers :
        /\ i # j
        /\ hpc[i] = "set" /\ hpc[j] = "lock"
        /\ gpioLock = {i}

DriverOrder == <<"scan", "set_configuration", "get_status", "ping">>

\* C13: the driver operations of wifi() are performed in the order scan,
\* set_configuration, get_status, ping, each at most once, and none after the
\* first failure: a failed scan leaves one operation performed for good, a
\* rejected configuration two, an unexpected status three, and no operation
\* follows a failed driver construction.
C13_BootstrapOrder ==
    /\ Len(driverOps) <= Len(DriverOrder)
    /\ \A k \in 1..Len(driverOps) : driverOps[k] = DriverOrder[k]
    /\ wifiResult # None =>
           Len(driverOps) =
               CASE wifiResult[1] = "DriverInit" -> 0
                 [] wifiResult[1] = "ScanIncomplete" -> 1
                 [] wifiResult[1] = "ConfigRejected" -> 2
                 [] wifiResult[1] = "UnexpectedStatus" -> 3
                 [] OTHER -> 4

C13_Witness ==
    /\ wifiResult = Some("ConfigRejected")
    /\ driverOps = <<"scan", "set_configuration">>
    /\ pcMain = "returned"

RegistrationOrder ==
    <<"init", "accessory_create", "service_create", "add_name", "set_write_cb",
      "add_service_to_accessory", "add_accessory", "secret", "start">>

IsRegistrationCall(c) == \E k \in 1..Len(RegistrationOrder) : RegistrationOrder[k] = c

\* C14: the control task's calls init, create accessory, create service, set
\* name, install write callback, attach service, register accessory, provision
\* setup code and start are made in this order, none of them twice, and all of
\* them once the task is in its loop; so the write callback is installed before
\* the service is attached, the accessory registered and the run loop started.
C14_RegistrationOrder ==
    LET made == SelectSeq(hapCalls, IsRegistrationCall)
    IN  /\ Len(made) <= Len(RegistrationOrder)
        /\ \A k \in 1..Len(made) : made[k] = RegistrationOrder[k]
        /\ pcTask = "loop" => made = RegistrationOrder

C14_Witness ==
    /\ pcTask = "loop"
    /\ SelectSeq(hapCalls, IsRegistrationCall) = RegistrationOrder
    /\ writeCb = Some("outlet_write") /\ started

\* C15 (as claimed): an invocation with a batch of count >= 1 requests applies
\* every request in order, so once it has returned, and nobody entered the
\* critical section after it, the pin shows the value of the last request of
\* the batch.
C15_LastCommandApplied ==
    \A i \in Callers :
        (/\ hpc[i] = "returned" /\ count[i] >= 1
         /\ lastAcquired[1].caller = i /\ gpioLock = {}) =>
            level = IF write_data[i].reqs[count[i]] THEN "high" ELSE "low"

\* C16: a step of a write-handler invocation leaves the WIFI slot and its lock,
\* the handle bound in GPIO, the installed callback, the registered accessory
\* and service (the protocol-stack calls made and their outcomes, the running
\* stack) and the created task as they are; and it changes the pin level only
\* as the holder of the GPIO critical section.
C16_HandlerFrame ==
    [][(\E i \in Callers : hpc'[i] # hpc[i]) =>
         /\ UNCHANGED <<WIFI, wifiLock, GPIO, writeCb, started, hapCalls, hapFailed,
                        tasksCreated, pcTask, pcMain>>
         /\ level' # level =>
                \E i \in Callers : i \in gpioLock /\ hpc'[i] # hpc[i]]_vars

C16_Witness ==
    /\ WIFI = Some("wifi") /\ GPIO = Some("gpio5")
    /\ writeCb = Some("outlet_write") /\ started
    /\ \E i \in Callers : hpc[i] = "returned" /\ level = "high"

\* The state the running system starts from is one the program reaches.
RunningStateReached == InitLive

\* C17: under fair scheduling every write-handler invocation on a bound
\* actuator returns, whatever the other invocations do; an invocation that is
\* returning or has returned does not hold the GPIO lock; and whenever an
\* invocation waits for the lock, the lock is free or its holder is inside the
\* critical section and can go on (nobody waits on a context that waits).
C17_HandlerTerminates ==
    /\ \A i \in Callers : (hpc[i] = "read") ~> (hpc[i] = "returned")
    /\ [](\A i \in Callers : hpc[i] \in {"return", "returned", "done"} => i \notin gpioLock)
    /\ []((\E i \in Callers : hpc[i] = "lock") =>
            \/ gpioLock = {}
            \/ \E j \in gpioLock \cap Callers : hpc[j] \in {"unwrap", "set", "unlock"})

C17_Witness ==
    \E i, j \in Callers :
        /\ i # j
        /\ hpc[i] = "returned" /\ i \notin gpioLock /\ ret[i] = Some(HAP_SUCCESS_)
        /\ hpc[j] = "set" /\ j \in gpioLock

\* C18: the control task has driven the pin low by the time it binds it, so
\* while it is binding, and in every state where GPIO is bound and no
\* write-handler invocation has written the pin yet, the pin is low.
C18_SafeInitialOutput ==
    /\ pcTask \in {"bind_lock", "bind_store", "bind_unlock"} => level = "low"
    /\ (GPIO # None /\ applied = 0) => level = "low"

C18_Witness ==
    /\ GPIO = Some("gpio5") /\ applied = 0 /\ level = "low"
    /\ started
    /\ \E i \in Callers : hpc[i] = "set" /\ b[i] = Some(TRUE)

\* C19: after a successful bootstrap main stores the network handle in WIFI
\* and has released the WIFI lock when it creates the control task; the task
\* is created at most once, and only by main; and from the store on, in every
\* state (main still running or returned, the control task and the write
\* handlers at any position) WIFI holds that handle.
C19_NetworkHandleRetained ==
    /\ tasksCreated <= 1
    /\ (tasksCreated = 1) <=> (pcTask # "not_created")
    /\ pcMain = "create_task" => (wifiLock = "free" /\ tasksCreated = 0)
    /\ pcMain \in {"unlock_WIFI", "create_task", "return_ok"} => WIFI = Some("wifi")
    /\ tasksCreated = 1 => (WIFI = Some("wifi") /\ wifiLock = "free")
    /\ (pcMain = "returned" /\ mainResult = Some("Ok")) =>
           (WIFI = Some("wifi") /\ tasksCreated = 1)
    /\ (\E i \in Callers : InCall(i)) => WIFI = Some("wifi")

C19_Witness ==
    /\ pcMain = "returned" /\ mainResult = Some("Ok")
    /\ WIFI = Some("wifi") /\ wifiLock = "free" /\ tasksCreated = 1
    /\ \E i \in Callers : hpc[i] = "unlock"
====
